---- MODULE Spec2Model ----
(***************************************************************************)
(* novellama backend: the Flask request handlers (app.py), the per-session *)
(* TranslationContext (models/translation_context.py), the JSON file store *)
(* (storage.py) and the completion client (api/translation_api.py).        *)
(*                                                                         *)
(* A text is modelled by its token sequence: get_token_count(text) is the  *)
(* length of the encoding, and the only thing the program does with the    *)
(* encoding is to take its length.  The empty sequence is the empty string *)
(* (falsy in Python).                                                      *)
(***************************************************************************)
EXTENDS Integers, Sequences, FiniteSets, TLC

\* ---------------------------------------------------------------- bounds
MaxTokens == 7        \* the MAX_TOKENS setting of the modelled process
MaxMsgs == 2          \* the non-zero MAX_CONTEXT_MESSAGES setting
MaxRequests == 3      \* requests handled in one run of the process

SessionIds == {"s1", "s2"}
Reqs == {1, 2}        \* request threads; Spec uses thread 1 only

\* ----------------------------------------------------------------- texts
EmptyText == <<>>
SourceTexts == {EmptyText, <<"a">>, <<"b", "b">>}
ReplyTexts == {<<"x">>}
Prompts == {EmptyText, <<"p", "p", "p", "p">>}
RefLists == {<<>>, << <<"r">> >>}

DefaultPrompt ==
    <<"You are a professional translator.",
      "Translate the given text into the target language.">>
RefHeader == <<"Reference materials:">>
RefMark(i) == "--- Reference " \o ToString(i) \o " ---"

\* ------------------------------------------------------------- tokenizer
get_token_count(text) == Len(text)

\* ---------------------------------------------------- TranslationContext
NoCtx == [absent |-> TRUE]

NewContext(e) ==
    [messages |-> <<>>,
     max_messages |-> e.MAX_CONTEXT_MESSAGES,
     max_tokens |-> e.MAX_TOKENS,
     system_prompt |-> EmptyText,
     references |-> <<>>]

\* set_system_prompt that starts the conversation over.
set_system_prompt_resets(ctx, prompt) ==
    [ctx EXCEPT !.system_prompt = prompt, !.messages = <<>>]

set_system_prompt(ctx, prompt) == [ctx EXCEPT !.system_prompt = prompt]

add_reference(ctx, reference) ==
    [ctx EXCEPT !.references = Append(@, reference)]

\* clear_references that leaves the list as it is.
clear_references_keeps(ctx) == ctx

clear_references(ctx) == [ctx EXCEPT !.references = <<>>]

RECURSIVE RefBlocks(_, _)
RefBlocks(refs, i) ==
    IF i > Len(refs) THEN <<>>
    ELSE <<RefMark(i)>> \o refs[i] \o RefBlocks(refs, i + 1)

build_system_message(ctx) ==
    LET system_content ==
            IF ctx.system_prompt # EmptyText THEN ctx.system_prompt
            ELSE DefaultPrompt
    IN  IF ctx.references # <<>>
        THEN system_content \o RefHeader \o RefBlocks(ctx.references, 1)
        ELSE system_content

msg_tokens(msg) ==
    get_token_count(msg.source) + get_token_count(msg.translation)

\* The backward scan of _manage_context_size: i is the index under
\* inspection (1-based), total the tokens accumulated so far.  Returns the
\* surviving history.
RECURSIVE ScanBack(_, _, _, _)
ScanBack(messages, i, total_tokens, max_tokens) ==
    IF i < 1 THEN messages
    ELSE IF total_tokens + msg_tokens(messages[i]) < max_tokens
         THEN ScanBack(messages, i - 1,
                       total_tokens + msg_tokens(messages[i]), max_tokens)
         ELSE SubSeq(messages, i + 1, Len(messages))

\* Variants of _manage_context_size with one slip each.
RECURSIVE ScanBackInclusive(_, _, _, _)
ScanBackInclusive(messages, i, total_tokens, max_tokens) ==
    IF i < 1 THEN messages
    ELSE IF total_tokens + msg_tokens(messages[i]) <= max_tokens
         THEN ScanBackInclusive(messages, i - 1,
                  total_tokens + msg_tokens(messages[i]), max_tokens)
         ELSE SubSeq(messages, i + 1, Len(messages))

\* `<=` where the code compares with `<`.
manage_context_size_inclusive(ctx) ==
    IF ctx.max_messages > 0 /\ Len(ctx.messages) > ctx.max_messages
    THEN [ctx EXCEPT !.messages =
             SubSeq(@, Len(@) - ctx.max_messages + 1, Len(@))]
    ELSE [ctx EXCEPT !.messages =
             ScanBackInclusive(@, Len(@),
                 get_token_count(build_system_message(ctx)), ctx.max_tokens)]

\* messages[:max_messages] where the code slices messages[-max_messages:].
manage_context_size_keep_oldest(ctx) ==
    IF ctx.max_messages > 0 /\ Len(ctx.messages) > ctx.max_messages
    THEN [ctx EXCEPT !.messages = SubSeq(@, 1, ctx.max_messages)]
    ELSE [ctx EXCEPT !.messages =
             ScanBack(@, Len(@), get_token_count(build_system_message(ctx)),
                      ctx.max_tokens)]

\* The `return` after the count-based cut left out.
manage_context_size_no_return(ctx) ==
    LET cut == IF ctx.max_messages > 0 /\ Len(ctx.messages) > ctx.max_messages
               THEN SubSeq(ctx.messages,
                           Len(ctx.messages) - ctx.max_messages + 1,
                           Len(ctx.messages))
               ELSE ctx.messages
    IN  [ctx EXCEPT !.messages =
            ScanBack(cut, Len(cut), get_token_count(build_system_message(ctx)),
                     ctx.max_tokens)]

\* `continue` where the code cuts and breaks: an entry that does not fit is
\* dropped alone and the scan goes on to the older ones.
RECURSIVE ScanBackSkipping(_, _, _, _)
ScanBackSkipping(messages, i, total_tokens, max_tokens) ==
    IF i < 1 THEN <<>>
    ELSE IF total_tokens + msg_tokens(messages[i]) < max_tokens
         THEN Append(ScanBackSkipping(messages, i - 1,
                         total_tokens + msg_tokens(messages[i]), max_tokens),
                     messages[i])
         ELSE ScanBackSkipping(messages, i - 1, total_tokens, max_tokens)

manage_context_size_skipping(ctx) ==
    IF ctx.max_messages > 0 /\ Len(ctx.messages) > ctx.max_messages
    THEN [ctx EXCEPT !.messages =
             SubSeq(@, Len(@) - ctx.max_messages + 1, Len(@))]
    ELSE [ctx EXCEPT !.messages =
             ScanBackSkipping(@, Len(@),
                 get_token_count(build_system_message(ctx)), ctx.max_tokens)]

manage_context_size(ctx) ==
    IF ctx.max_messages > 0 /\ Len(ctx.messages) > ctx.max_messages
    THEN [ctx EXCEPT !.messages =
             SubSeq(@, Len(@) - ctx.max_messages + 1, Len(@))]
    ELSE [ctx EXCEPT !.messages =
             ScanBack(@, Len(@), get_token_count(build_system_message(ctx)),
                      ctx.max_tokens)]

add_translation(ctx, source_text, translated_text) ==
    manage_context_size(
        [ctx EXCEPT !.messages =
            Append(@, [source |-> source_text,
                       translation |-> translated_text])])

RECURSIVE HistoryMessages(_, _)
HistoryMessages(messages, i) ==
    IF i > Len(messages) THEN <<>>
    ELSE <<[role |-> "user", content |-> messages[i].source],
           [role |-> "assistant", content |-> messages[i].translation]>>
         \o HistoryMessages(messages, i + 1)

\* get_context_for_api with the system message appended after the history.
get_context_for_api_system_last(ctx) ==
    HistoryMessages(ctx.messages, 1)
    \o <<[role |-> "system", content |-> build_system_message(ctx)]>>

get_context_for_api(ctx) ==
    <<[role |-> "system", content |-> build_system_message(ctx)]>>
    \o HistoryMessages(ctx.messages, 1)

\* ---------------------------------------------------------- StorageManager
\* A session file is absent, holds a JSON object with the three fields, or
\* holds JSON that is not an object (PUT /api/session/<id> stores any JSON
\* body, e.g. [] or null): every subscript of such a value raises.
Missing == [file |-> "missing"]
Malformed == [file |-> "not an object"]

EmptyRecord == [systemPrompt |-> EmptyText, references |-> <<>>,
                translations |-> <<>>]

Entry(source_text, translated_text) ==
    [source |-> source_text, translation |-> translated_text]

StoredRecord ==
    [systemPrompt |-> <<"p", "p", "p", "p">>,
     references |-> << <<"r">> >>,
     translations |-> <<Entry(<<"a">>, <<"x">>), Entry(<<"b", "b">>, <<"x">>)>>]

HistoryRecord ==
    [systemPrompt |-> EmptyText,
     references |-> <<>>,
     translations |-> <<Entry(<<"a">>, <<"x">>), Entry(<<"a">>, <<"x">>),
                        Entry(<<"b", "b">>, <<"x">>)>>]

PromptRecord ==
    [systemPrompt |-> <<"p", "p", "p", "p">>,
     references |-> <<>>,
     translations |-> <<Entry(<<"a">>, <<"x">>)>>]

InitialFiles == {Missing, StoredRecord, HistoryRecord, PromptRecord}
PutBodies == {Malformed, StoredRecord}

IsObject(data) == "systemPrompt" \in DOMAIN data

load_session(files, session_id) ==
    IF files[session_id] = Missing THEN EmptyRecord ELSE files[session_id]

\* save_session with a file name that does not depend on the session id.
save_session_one_file(files, session_id, data) ==
    [s \in DOMAIN files |-> data]

save_session(files, session_id, data) ==
    [files EXCEPT ![session_id] = data]

\* ------------------------------------------------------------------ state
VARIABLES
    env,        \* MAX_CONTEXT_MESSAGES and MAX_TOKENS of the process
    sessions,   \* app.sessions: session id -> TranslationContext or NoCtx
    store,      \* the data directory: session id -> file content
    req,        \* request thread -> the request it is handling
    added,      \* history: every entry passed to add_translation, per session
    api_calls,  \* history: number of calls of TranslationAPI.translate_text
    started,    \* history: number of requests received
    store0,     \* history: the data directory when the process started
    translated  \* history: translate requests answered 200, per session

vars == <<env, sessions, store, req, added, api_calls, started, store0,
          translated>>

IdleReq ==
    [kind |-> "none", pc |-> "idle", sid |-> "s1", text |-> EmptyText,
     references |-> <<>>, messages |-> <<>>, translation |-> EmptyText,
     saved_data |-> EmptyRecord, resp |-> "none",
     pre_ctx |-> NoCtx, pre_store |-> Missing]

NewReq(k, session_id, ctx, file) ==
    [IdleReq EXCEPT !.kind = k, !.sid = session_id, !.pre_ctx = ctx,
                    !.pre_store = file]

Init ==
    /\ env \in [MAX_CONTEXT_MESSAGES : {0, MaxMsgs}, MAX_TOKENS : {MaxTokens}]
    /\ sessions = [s \in SessionIds |-> NoCtx]
    /\ store \in [SessionIds -> InitialFiles]
    /\ store["s2"] = Missing
    /\ req = [r \in Reqs |-> IdleReq]
    /\ added = [s \in SessionIds |-> <<>>]
    /\ api_calls = 0
    /\ started = 0
    /\ store0 = store
    /\ translated = [s \in SessionIds |-> 0]

CanStart(r) == req[r].pc \in {"idle", "done"} /\ started < MaxRequests

Finish(rq, response) ==
    [rq EXCEPT !.pc = "done", !.resp = response, !.messages = <<>>,
               !.saved_data = EmptyRecord]

\* ------------------------------------------------------ app.translate
\* The hydration loop of translate: the saved translations replayed through
\* add_translation, oldest first.
RECURSIVE ReplayTranslations(_, _, _)
ReplayTranslations(ctx, translations, i) ==
    IF i > Len(translations) THEN ctx
    ELSE ReplayTranslations(
             add_translation(ctx, translations[i].source,
                             translations[i].translation),
             translations, i + 1)

RECURSIVE AddReferences(_, _, _)
AddReferences(ctx, references, i) ==
    IF i > Len(references) THEN ctx
    ELSE AddReferences(add_reference(ctx, references[i]), references, i + 1)

Hydrate(ctx, saved_data) ==
    LET c1 == IF saved_data.systemPrompt # EmptyText
              THEN set_system_prompt(ctx, saved_data.systemPrompt) ELSE ctx
        c2 == AddReferences(c1, saved_data.references, 1)
    IN  ReplayTranslations(c2, saved_data.translations, 1)

\* Line 35 with the validation left out.
NoText_unchecked(source_text) == FALSE

\* Line 35: `if not source_text`.
NoText(source_text) == source_text = EmptyText

\* Lines 31-56: validation, get-or-create (with hydration) and rendering.
TranslateBegin(r) ==
    /\ CanStart(r)
    /\ \E session_id \in SessionIds, source_text \in SourceTexts :
         LET rq == [NewReq("translate", session_id, sessions[session_id],
                           store[session_id]) EXCEPT !.text = source_text]
             saved_data == load_session(store, session_id)
         IN
         /\ started' = started + 1
         /\ IF NoText(source_text)
            THEN /\ req' = [req EXCEPT ![r] = Finish(rq, "400")]
                 /\ UNCHANGED <<sessions, added>>
            ELSE IF sessions[session_id] # NoCtx
            THEN /\ req' = [req EXCEPT ![r] =
                        [rq EXCEPT !.pc = "call",
                            !.messages =
                                Append(get_context_for_api(sessions[session_id]),
                                       [role |-> "user",
                                        content |-> source_text])]]
                 /\ UNCHANGED <<sessions, added>>
            ELSE IF ~IsObject(saved_data)
            THEN \* saved_data["systemPrompt"] raises outside the try block
                 /\ sessions' = [sessions EXCEPT ![session_id] = NewContext(env)]
                 /\ req' = [req EXCEPT ![r] = Finish(rq, "500 unhandled")]
                 /\ UNCHANGED added
            ELSE LET ctx == Hydrate(NewContext(env), saved_data) IN
                 /\ sessions' = [sessions EXCEPT ![session_id] = ctx]
                 /\ added' = [added EXCEPT ![session_id] =
                                 @ \o saved_data.translations]
                 /\ req' = [req EXCEPT ![r] =
                        [rq EXCEPT !.pc = "call",
                            !.messages =
                                Append(get_context_for_api(ctx),
                                       [role |-> "user",
                                        content |-> source_text])]]
    /\ UNCHANGED <<env, store, api_calls, store0, translated>>

\* translate with the exchange recorded before the completion call is known
\* to have succeeded: the failure path leaves the source text in the history.
TranslateCall_records_failure(r) ==
    /\ req[r].kind = "translate" /\ req[r].pc = "call"
    /\ api_calls' = api_calls + 1
    /\ \/ /\ \E reply \in ReplyTexts :
               req' = [req EXCEPT ![r] = [@ EXCEPT !.pc = "record",
                                                   !.translation = reply]]
          /\ UNCHANGED <<sessions, added>>
       \/ /\ req' = [req EXCEPT ![r] = Finish(@, "500 api error")]
          /\ sessions' = [sessions EXCEPT ![req[r].sid] =
                 add_translation(@, req[r].text, EmptyText)]
          /\ added' = [added EXCEPT ![req[r].sid] =
                 Append(@, Entry(req[r].text, EmptyText))]
    /\ UNCHANGED <<env, store, started, store0, translated>>

\* Line 59 (translation_api.py 27-37): the completion call returns the reply
\* or raises; the handler's except clause turns the exception into a 500.
TranslateCall(r) ==
    /\ req[r].kind = "translate" /\ req[r].pc = "call"
    /\ api_calls' = api_calls + 1
    /\ \/ \E reply \in ReplyTexts :
            req' = [req EXCEPT ![r] = [@ EXCEPT !.pc = "record",
                                                !.translation = reply]]
       \/ req' = [req EXCEPT ![r] = Finish(@, "500 api error")]
    /\ UNCHANGED <<env, sessions, store, added, started, store0, translated>>

\* Lines 60-63: add_translation on the context, then the store is read.
TranslateRecord(r) ==
    /\ req[r].kind = "translate" /\ req[r].pc = "record"
    /\ LET sid == req[r].sid IN
       /\ sessions' = [sessions EXCEPT ![sid] =
              add_translation(@, req[r].text, req[r].translation)]
       /\ added' = [added EXCEPT ![sid] =
              Append(@, Entry(req[r].text, req[r].translation))]
       /\ req' = [req EXCEPT ![r] =
              [@ EXCEPT !.pc = "save",
                        !.saved_data = load_session(store, sid)]]
    /\ UNCHANGED <<env, store, api_calls, started, store0, translated>>

\* translate persisting the context's (trimmed) history instead of appending
\* the exchange to the loaded record.
TranslateSave_writes_history(r) ==
    /\ req[r].kind = "translate" /\ req[r].pc = "save"
    /\ LET sid == req[r].sid
           saved_data == req[r].saved_data
       IN IF IsObject(saved_data)
          THEN /\ store' = save_session(store, sid,
                     [saved_data EXCEPT !.translations =
                         sessions[sid].messages])
               /\ req' = [req EXCEPT ![r] = Finish(@, "200")]
               /\ translated' = [translated EXCEPT ![sid] = @ + 1]
          ELSE /\ req' = [req EXCEPT ![r] = Finish(@, "500 store error")]
               /\ UNCHANGED <<store, translated>>
    /\ UNCHANGED <<env, sessions, added, api_calls, started, store0>>

\* Lines 64-72: the exchange is appended to the loaded record and the record
\* written back; a record that is no object raises inside the try block.
TranslateSave(r) ==
    /\ req[r].kind = "translate" /\ req[r].pc = "save"
    /\ LET sid == req[r].sid
           saved_data == req[r].saved_data
       IN IF IsObject(saved_data)
          THEN /\ store' = save_session(store, sid,
                     [saved_data EXCEPT !.translations =
                         Append(@, Entry(req[r].text, req[r].translation))])
               /\ req' = [req EXCEPT ![r] = Finish(@, "200")]
               /\ translated' = [translated EXCEPT ![sid] = @ + 1]
          ELSE /\ req' = [req EXCEPT ![r] = Finish(@, "500 store error")]
               /\ UNCHANGED <<store, translated>>
    /\ UNCHANGED <<env, sessions, added, api_calls, started, store0>>

\* ------------------------------------------- app.update_system_prompt
\* Lines 77-88: get-or-create (no hydration), set_system_prompt, store read.
SystemPromptBegin(r) ==
    /\ CanStart(r)
    /\ \E session_id \in SessionIds, prompt \in Prompts :
         LET ctx == IF sessions[session_id] = NoCtx THEN NewContext(env)
                    ELSE sessions[session_id]
         IN
         /\ sessions' = [sessions EXCEPT ![session_id] =
                            set_system_prompt(ctx, prompt)]
         /\ req' = [req EXCEPT ![r] =
                [NewReq("system_prompt", session_id, sessions[session_id],
                        store[session_id])
                    EXCEPT !.text = prompt, !.pc = "save",
                           !.saved_data = load_session(store, session_id)]]
    /\ started' = started + 1
    /\ UNCHANGED <<env, store, added, api_calls, store0, translated>>

\* Lines 89-92: the field is replaced in the loaded record and the record
\* written back; no try block surrounds the subscript.
SystemPromptSave(r) ==
    /\ req[r].kind = "system_prompt" /\ req[r].pc = "save"
    /\ IF IsObject(req[r].saved_data)
       THEN /\ store' = save_session(store, req[r].sid,
                  [req[r].saved_data EXCEPT !.systemPrompt = req[r].text])
            /\ req' = [req EXCEPT ![r] = Finish(@, "200")]
       ELSE /\ req' = [req EXCEPT ![r] = Finish(@, "500 unhandled")]
            /\ UNCHANGED store
    /\ UNCHANGED <<env, sessions, added, api_calls, started, store0,
                   translated>>

\* ---------------------------------------------- app.update_references
\* Lines 97-110: get-or-create (no hydration), clear_references, one
\* add_reference per element, store read.
ReferencesBegin(r) ==
    /\ CanStart(r)
    /\ \E session_id \in SessionIds, references \in RefLists :
         LET ctx == IF sessions[session_id] = NoCtx THEN NewContext(env)
                    ELSE sessions[session_id]
         IN
         /\ sessions' = [sessions EXCEPT ![session_id] =
                            AddReferences(clear_references(ctx), references, 1)]
         /\ req' = [req EXCEPT ![r] =
                [NewReq("references", session_id, sessions[session_id],
                        store[session_id])
                    EXCEPT !.references = references, !.pc = "save",
                           !.saved_data = load_session(store, session_id)]]
    /\ started' = started + 1
    /\ UNCHANGED <<env, store, added, api_calls, store0, translated>>

\* Lines 111-114.
ReferencesSave(r) ==
    /\ req[r].kind = "references" /\ req[r].pc = "save"
    /\ IF IsObject(req[r].saved_data)
       THEN /\ store' = save_session(store, req[r].sid,
                  [req[r].saved_data EXCEPT !.references = req[r].references])
            /\ req' = [req EXCEPT ![r] = Finish(@, "200")]
       ELSE /\ req' = [req EXCEPT ![r] = Finish(@, "500 unhandled")]
            /\ UNCHANGED store
    /\ UNCHANGED <<env, sessions, added, api_calls, started, store0,
                   translated>>

\* ------------------------------------------------- app.update_session
\* PUT /api/session/<id>: the request body is written as the session file.
UpdateSession(r) ==
    /\ CanStart(r)
    /\ \E session_id \in SessionIds, data \in PutBodies :
         /\ store' = save_session(store, session_id, data)
         /\ req' = [req EXCEPT ![r] =
                Finish(NewReq("put", session_id, sessions[session_id],
                              store[session_id]), "200")]
    /\ started' = started + 1
    /\ UNCHANGED <<env, sessions, added, api_calls, store0, translated>>

\* ----------------------------------------------------- specifications
Handle(r) ==
    \/ TranslateBegin(r)
    \/ TranslateCall(r)
    \/ TranslateRecord(r)
    \/ TranslateSave(r)
    \/ SystemPromptBegin(r)
    \/ SystemPromptSave(r)
    \/ ReferencesBegin(r)
    \/ ReferencesSave(r)
    \/ UpdateSession(r)

\* Requests handled one at a time (thread 1 only).
Next == Handle(1)

Spec == Init /\ [][Next]_vars

\* Two request threads running translate concurrently (Flask's development
\* server handles each request in its own thread).
NextThreaded ==
    \E r \in Reqs :
        \/ TranslateBegin(r)
        \/ TranslateCall(r)
        \/ TranslateRecord(r)
        \/ TranslateSave(r)

SpecThreaded == Init /\ [][NextThreaded]_vars

\* Translate requests only, one at a time: no request changes the system
\* prompt or the references of a context once it exists.
NextTranslate ==
    \/ TranslateBegin(1)
    \/ TranslateCall(1)
    \/ TranslateRecord(1)
    \/ TranslateSave(1)

SpecTranslate == Init /\ [][NextTranslate]_vars

\* Translate and update requests, one at a time, without PUT
\* /api/session/<id>: every session file is absent or a record.
NextManaged ==
    \/ TranslateBegin(1)
    \/ TranslateCall(1)
    \/ TranslateRecord(1)
    \/ TranslateSave(1)
    \/ SystemPromptBegin(1)
    \/ SystemPromptSave(1)
    \/ ReferencesBegin(1)
    \/ ReferencesSave(1)

SpecManaged == Init /\ [][NextManaged]_vars

\* ------------------------------------------------------------ properties
IsSuffix(s, t) ==
    /\ Len(s) <= Len(t)
    /\ s = SubSeq(t, Len(t) - Len(s) + 1, Len(t))

RECURSIVE HistoryTokens(_, _)
HistoryTokens(messages, i) ==
    IF i > Len(messages) THEN 0
    ELSE msg_tokens(messages[i]) + HistoryTokens(messages, i + 1)

\* Tokens of the rendered context: the system message and every entry.
RenderedTokens(ctx) ==
    get_token_count(build_system_message(ctx)) + HistoryTokens(ctx.messages, 1)

WithinLimits(ctx) ==
    \/ ctx.max_messages > 0 /\ Len(ctx.messages) <= ctx.max_messages
    \/ RenderedTokens(ctx) < ctx.max_tokens

Live == {s \in SessionIds : sessions[s] # NoCtx}
Done(r) == req[r].pc = "done"
Completed(r, k) == Done(r) /\ req[r].kind = k /\ req[r].resp = "200"

\* C1 as stated: after every add_translation (a step that extends `added`)
\* the count bound or the token bound holds.
C1_LimitsAfterAdd ==
    [][\A s \in SessionIds :
          added'[s] # added[s] => WithinLimits(sessions'[s])]_vars

\* C1 amended: after every add_translation the count bound holds, or the
\* token bound holds, or the history is empty (the system message alone
\* costs max_tokens or more, and trimming history cannot lower it).
C1_LimitsAfterAddOrEmpty ==
    [][\A s \in SessionIds :
          added'[s] # added[s] =>
              \/ WithinLimits(sessions'[s])
              \/ sessions'[s].messages = <<>>]_vars

\* An uncapped session whose history was trimmed by tokens and is not empty.
C1_Witness ==
    \E s \in Live :
        /\ sessions[s].max_messages = 0
        /\ sessions[s].messages # <<>>
        /\ Len(sessions[s].messages) < Len(added[s])
        /\ RenderedTokens(sessions[s]) < sessions[s].max_tokens

\* C2: a translate request that ends with the completion client's failure
\* leaves the session file as it was at the start of the request, leaves an
\* existing context's history unchanged, and records no exchange in a
\* context it created (its history comes from the stored translations only).
C2_ApiFailureRecordsNothing ==
    \A r \in Reqs :
        (Done(r) /\ req[r].kind = "translate"
                 /\ req[r].resp = "500 api error") =>
            LET s == req[r].sid IN
            /\ store[s] = req[r].pre_store
            /\ req[r].pre_ctx # NoCtx => sessions[s] = req[r].pre_ctx
            /\ req[r].pre_ctx = NoCtx =>
                   /\ added[s] = load_session(store, s).translations
                   /\ IsSuffix(sessions[s].messages, added[s])

\* A failed completion call on a session that already holds history.
C2_Witness ==
    \E r \in Reqs :
        /\ Done(r) /\ req[r].kind = "translate"
        /\ req[r].resp = "500 api error"
        /\ req[r].pre_ctx # NoCtx
        /\ sessions[req[r].sid].messages # <<>>

ContextContent(s) ==
    IF sessions[s] = NoCtx THEN EmptyRecord
    ELSE [systemPrompt |-> sessions[s].system_prompt,
          references |-> sessions[s].references,
          translations |-> sessions[s].messages]

\* C3: when a translate, system-prompt update or reference update has
\* been answered 200, the session file and the context hold the same system
\* prompt, references and history.
C3_WriteThrough ==
    \A r \in Reqs :
        (\/ Completed(r, "translate")
         \/ Completed(r, "system_prompt")
         \/ Completed(r, "references")) =>
            load_session(store, req[r].sid) = ContextContent(req[r].sid)

StoredCount(files, s) == Len(load_session(files, s).translations)

\* C4: when no translate request is in flight, every translate answered 200
\* has its exchange in the stored translations (as after any serial order).
C4_NoLostExchange ==
    (\A r \in Reqs : req[r].pc \in {"idle", "done"}) =>
        \A s \in SessionIds :
            StoredCount(store, s) = StoredCount(store0, s) + translated[s]

\* C5: the first request on a session that has a stored record leaves the
\* context holding the stored system prompt, references and history (the
\* stored translations replayed into it), apart from what the request sets.
C5_HydratedByFirstRequest ==
    \A r \in Reqs :
        (/\ Done(r) /\ req[r].resp = "200"
         /\ req[r].kind \in {"translate", "system_prompt", "references"}
         /\ req[r].pre_ctx = NoCtx
         /\ IsObject(req[r].pre_store)) =>
            LET s == req[r].sid
                ctx == sessions[s]
                rec == req[r].pre_store
            IN
            /\ ctx.system_prompt =
                   IF req[r].kind = "system_prompt" THEN req[r].text
                   ELSE rec.systemPrompt
            /\ ctx.references =
                   IF req[r].kind = "references" THEN req[r].references
                   ELSE rec.references
            /\ added[s] =
                   IF req[r].kind = "translate"
                   THEN Append(rec.translations,
                               Entry(req[r].text, req[r].translation))
                   ELSE rec.translations

\* C6: the history of a context is a contiguous suffix of the entries added
\* to it so far, in their order.
C6_HistoryIsSuffixOfAdded ==
    \A s \in Live : IsSuffix(sessions[s].messages, added[s])

\* A history of two entries left after an older entry was dropped.
C6_Witness ==
    \E s \in Live :
        /\ Len(sessions[s].messages) = 2
        /\ Len(added[s]) > 2
        /\ sessions[s].messages[1] # sessions[s].messages[2]

\* C7, for the mutations that are not add_translation (set_system_prompt,
\* add_reference, clear_references) on a context with history: after the
\* mutation the count bound or the token bound holds.
C7_LimitsAfterAnyMutation ==
    [][\A s \in SessionIds :
          (/\ sessions[s] # NoCtx
           /\ sessions'[s] # sessions[s]
           /\ added'[s] = added[s]
           /\ sessions'[s].messages # <<>>) =>
              WithinLimits(sessions'[s])]_vars

\* C8: a translate request without text is answered 400 in the step that
\* receives it (the step in which thread r takes a new request), and that
\* step changes no context, no session file and makes no completion call.
C8_EmptyTextRejected ==
    [][\A r \in Reqs :
          (/\ started' # started
           /\ req[r].pc \in {"idle", "done"}
           /\ \A q \in Reqs \ {r} : req'[q] = req[q]
           /\ req'[r].kind = "translate"
           /\ req'[r].text = EmptyText) =>
              /\ req'[r].pc = "done" /\ req'[r].resp = "400"
              /\ UNCHANGED <<sessions, store, added, api_calls>>]_vars

\* A rejected request for a session that has a stored record and no context.
C8_Witness ==
    \E r \in Reqs :
        /\ Done(r) /\ req[r].kind = "translate" /\ req[r].text = EmptyText
        /\ req[r].resp = "400"
        /\ store[req[r].sid] = StoredRecord
        /\ sessions[req[r].sid] = NoCtx
        /\ api_calls = 0

\* C9: no request fails on the session file: whatever the file holds, the
\* request is never answered with an error raised by reading the record.
C9_LoadNeverFails ==
    \A r \in Reqs : req[r].resp \notin {"500 unhandled", "500 store error"}

LastN(seq, n) == SubSeq(seq, Len(seq) - n + 1, Len(seq))

\* C10: when a context with max_messages > 0 already holds max_messages
\* entries or more, add_translation leaves exactly the last max_messages
\* entries of the extended history, whatever their tokens.
C10_CountCap ==
    [][\A s \in SessionIds :
          (/\ sessions[s] # NoCtx
           /\ Len(added'[s]) = Len(added[s]) + 1
           /\ sessions[s].max_messages > 0
           /\ Len(sessions[s].messages) + 1 > sessions[s].max_messages) =>
              sessions'[s].messages =
                  LastN(Append(sessions[s].messages,
                               added'[s][Len(added'[s])]),
                        sessions[s].max_messages)]_vars

\* The count cap has just cut the history to [B, C] although the two
\* entries together with the system message reach max_tokens.
C10_Witness ==
    \E r \in Reqs :
        LET s == req[r].sid IN
        /\ req[r].kind = "translate" /\ req[r].pc = "save"
        /\ sessions[s].max_messages = 2
        /\ Len(added[s]) = 3
        /\ sessions[s].messages = <<added[s][2], added[s][3]>>
        /\ RenderedTokens(sessions[s]) >= sessions[s].max_tokens

\* C11: when a reference update with list R has been handled, the context's
\* references are exactly R, and the session file, whenever it holds a
\* record, has references exactly R.
C11_ReferencesReplaced ==
    \A r \in Reqs :
        (Done(r) /\ req[r].kind = "references") =>
            LET s == req[r].sid IN
            /\ sessions[s].references = req[r].references
            /\ req[r].resp = "200" <=> IsObject(load_session(store, s))
            /\ IsObject(load_session(store, s)) =>
                   load_session(store, s).references = req[r].references

\* A non-empty list has replaced non-empty references, in the context and
\* in the file.
C11_Witness ==
    \E r \in Reqs :
        /\ Completed(r, "references")
        /\ req[r].references # <<>>
        /\ req[r].pre_ctx # NoCtx
        /\ req[r].pre_ctx.references # <<>>
        /\ IsObject(req[r].pre_store)
        /\ req[r].pre_store.references # <<>>

UserMessage(text) == [role |-> "user", content |-> text]

\* C12: the rendering of a context is the system message followed by a
\* user (source) and an assistant (translation) message per history entry,
\* oldest first; and while a translate request waits for the completion
\* call, having appended its source text to the sequence it was given,
\* rendering the context again gives that sequence without the appended
\* message.
C12_RenderShape ==
    /\ \A s \in Live :
          LET h == sessions[s].messages
              m == get_context_for_api(sessions[s])
          IN
          /\ Len(m) = 1 + 2 * Len(h)
          /\ m[1] = [role |-> "system",
                     content |-> build_system_message(sessions[s])]
          /\ \A i \in 1..Len(h) :
                /\ m[2 * i] = UserMessage(h[i].source)
                /\ m[2 * i + 1] = [role |-> "assistant",
                                   content |-> h[i].translation]
    /\ \A r \in Reqs :
          (req[r].kind = "translate" /\ req[r].pc = "call") =>
              /\ req[r].messages =
                     Append(get_context_for_api(sessions[req[r].sid]),
                            UserMessage(req[r].text))
              /\ req[r].pre_ctx # NoCtx =>
                     sessions[req[r].sid] = req[r].pre_ctx

\* A request waiting for the completion call on a context with two entries.
C12_Witness ==
    \E r \in Reqs :
        /\ req[r].kind = "translate" /\ req[r].pc = "call"
        /\ req[r].pre_ctx # NoCtx
        /\ Len(sessions[req[r].sid].messages) = 2
        /\ Len(req[r].messages) = 6

SystemTokens(ctx) == get_token_count(build_system_message(ctx))

FitsLast(seq, k, system_tokens, max_tokens) ==
    system_tokens + HistoryTokens(LastN(seq, k), 1) < max_tokens

\* The longest suffix of seq whose tokens, with the system message's, stay
\* below max_tokens; the empty suffix when none does.
LongestFittingSuffix(seq, system_tokens, max_tokens) ==
    LET fitting == {k \in 0..Len(seq) :
                       FitsLast(seq, k, system_tokens, max_tokens)}
        n == IF fitting = {} THEN 0
             ELSE CHOOSE k \in fitting : \A j \in fitting : j <= k
    IN  LastN(seq, n)

\* A step in which add_translation ran once on the existing context of s.
AddedOne(s) ==
    /\ sessions[s] # NoCtx
    /\ Len(added'[s]) = Len(added[s]) + 1

Extended(s) == Append(sessions[s].messages, added'[s][Len(added'[s])])

CountCapFires(s) ==
    /\ sessions[s].max_messages > 0
    /\ Len(sessions[s].messages) + 1 > sessions[s].max_messages

\* C13: when the count cap does not fire, add_translation leaves the longest
\* suffix of the extended history whose tokens, added to the system
\* message's, are below max_tokens (no entry when not even the newest
\* fits), and the whole extended history when all of it fits.
C13_TokenCap ==
    [][\A s \in SessionIds :
          (AddedOne(s) /\ ~CountCapFires(s)) =>
              /\ sessions'[s].messages =
                     LongestFittingSuffix(Extended(s),
                         SystemTokens(sessions[s]), sessions[s].max_tokens)
              /\ SystemTokens(sessions[s]) + HistoryTokens(Extended(s), 1)
                     < sessions[s].max_tokens
                 => sessions'[s].messages = Extended(s)]_vars

\* One pass of the token cap has dropped an older entry and kept newer ones.
C13_Witness ==
    \E r \in Reqs :
        LET s == req[r].sid IN
        /\ req[r].kind = "translate" /\ req[r].pc = "save"
        /\ req[r].pre_ctx # NoCtx
        /\ sessions[s].max_messages = 0
        /\ sessions[s].messages # <<>>
        /\ Len(sessions[s].messages) <= Len(req[r].pre_ctx.messages)
        /\ RenderedTokens(sessions[s]) < sessions[s].max_tokens

\* C14: when the token cap is reached and the entry just added costs, with
\* the system message, max_tokens or more, add_translation leaves the
\* history empty.
C14_NewestTooLarge ==
    [][\A s \in SessionIds :
          (/\ AddedOne(s) /\ ~CountCapFires(s)
           /\ SystemTokens(sessions[s])
                  + msg_tokens(added'[s][Len(added'[s])])
                  >= sessions[s].max_tokens) =>
              sessions'[s].messages = <<>>]_vars

\* The newest entry emptied a history whose older entries fit on their own.
C14_Witness ==
    \E r \in Reqs :
        LET s == req[r].sid IN
        /\ req[r].kind = "translate" /\ req[r].pc = "save"
        /\ req[r].pre_ctx # NoCtx
        /\ req[r].pre_ctx.messages # <<>>
        /\ RenderedTokens(req[r].pre_ctx) < sessions[s].max_tokens
        /\ SystemTokens(sessions[s]) = SystemTokens(req[r].pre_ctx)
        /\ sessions[s].messages = <<>>

\* What load_session returns for one file.
Loaded(file) == IF file = Missing THEN EmptyRecord ELSE file

\* C15: while a translate request waits for the completion call or holds
\* its reply, the messages it sends are the rendering of the context as it
\* was before the request (as hydrated, when the request created it)
\* followed by one user message with the source text, and neither the
\* context nor the session file has changed; once it is answered 200, the
\* context is the earlier context after add_translation(source, reply) and
\* the file is the earlier record with (source, reply) appended to its
\* translations.
C15_TranslateOrder ==
    \A r \in Reqs :
        req[r].kind = "translate" =>
            LET s == req[r].sid
                e == Entry(req[r].text, req[r].translation)
            IN
            /\ req[r].pc \in {"call", "record"} =>
                  /\ req[r].messages =
                         Append(get_context_for_api(sessions[s]),
                                UserMessage(req[r].text))
                  /\ req[r].messages[Len(req[r].messages)].role = "user"
                  /\ req[r].pre_ctx # NoCtx => sessions[s] = req[r].pre_ctx
                  /\ req[r].pre_ctx = NoCtx =>
                         added[s] = Loaded(req[r].pre_store).translations
                  /\ store[s] = req[r].pre_store
            /\ Completed(r, "translate") =>
                  /\ req[r].pre_ctx # NoCtx =>
                         sessions[s] = add_translation(req[r].pre_ctx,
                                           req[r].text, req[r].translation)
                  /\ added[s] # <<>> /\ added[s][Len(added[s])] = e
                  /\ store[s] =
                         [Loaded(req[r].pre_store) EXCEPT
                             !.translations = Append(@, e)]

\* A translate answered 200 on a context with history and a record with
\* stored translations, which trimmed the history.
C15_Witness ==
    \E r \in Reqs :
        /\ Completed(r, "translate")
        /\ req[r].pre_ctx # NoCtx
        /\ req[r].pre_ctx.messages # <<>>
        /\ Len(Loaded(req[r].pre_store).translations) >= 2
        /\ Len(sessions[req[r].sid].messages)
               < Len(load_session(store, req[r].sid).translations)

\* C16: a step changes the context or the file of session t only when it is
\* a step of a request for t (the thread that handles it moves, or takes it
\* as a new request).
C16_SessionsIndependent ==
    [][\A t \in SessionIds :
          (sessions'[t] # sessions[t] \/ store'[t] # store[t]) =>
              \E r \in Reqs :
                  /\ req'[r].sid = t
                  /\ req'[r].kind # "none"
                  /\ req'[r] # req[r] \/ started' # started]_vars

\* Both sessions hold a context and a record, each with its own content,
\* and the second one was written after the first.
C16_Witness ==
    /\ sessions["s1"] # NoCtx /\ sessions["s2"] # NoCtx
    /\ IsObject(store["s1"]) /\ IsObject(store["s2"])
    /\ store["s1"] # store0["s1"]
    /\ store["s1"] # store["s2"]
    /\ sessions["s1"] # sessions["s2"]
    /\ \E r \in Reqs : Done(r) /\ req[r].sid = "s2" /\ req[r].resp = "200"

\* C17: when a translate request has been answered with an error after the
\* completion call returned a reply, the exchange is not the newest entry
\* of the context's history unless it is also the newest stored translation.
C17_ErrorKeepsAgreement ==
    \A r \in Reqs :
        (/\ Done(r) /\ req[r].kind = "translate"
         /\ req[r].resp \in {"500 api error", "500 store error",
                             "500 unhandled"}
         /\ req[r].translation # EmptyText) =>
            LET s == req[r].sid
                e == Entry(req[r].text, req[r].translation)
                h == sessions[s].messages
                t == load_session(store, s)
            IN  (h # <<>> /\ h[Len(h)] = e) =>
                    /\ IsObject(t)
                    /\ t.translations # <<>>
                    /\ t.translations[Len(t.translations)] = e

\* C18: in a context without count limit whose system message has not
\* changed since it was created, the history is the longest suffix of all
\* the entries ever added (stored translations replayed at hydration
\* included) that stays, with the system message, below max_tokens: what
\* one trim of the whole list would leave.
C18_PathIndependent ==
    \A s \in Live :
        sessions[s].max_messages = 0 =>
            sessions[s].messages =
                LongestFittingSuffix(added[s], SystemTokens(sessions[s]),
                                     sessions[s].max_tokens)

\* A hydrated context that trimmed during the replay and after it, and
\* still holds entries.
C18_Witness ==
    \E s \in Live :
        /\ sessions[s].max_messages = 0
        /\ Len(Loaded(store0[s]).translations) >= 1
        /\ Len(added[s]) >= Len(Loaded(store0[s]).translations) + 2
        /\ sessions[s].messages # <<>>
        /\ Len(sessions[s].messages) < Len(added[s])

Quiescent == \A r \in Reqs : req[r].pc \in {"idle", "done"}

IsPrefix(s, t) == Len(s) <= Len(t) /\ s = SubSeq(t, 1, Len(s))

\* C19: without PUT /api/session/<id>, between requests the history of
\* every context is a contiguous suffix of the stored translations of its
\* session, the stored translations still begin with the list the process
\* found at its start, and a translate answered 200 has made the stored
\* list exactly one entry longer.
C19_HistorySuffixOfStored ==
    /\ \A s \in SessionIds :
          /\ IsObject(load_session(store, s))
          /\ IsPrefix(Loaded(store0[s]).translations,
                      load_session(store, s).translations)
    /\ Quiescent =>
          \A s \in Live :
              IsSuffix(sessions[s].messages,
                       load_session(store, s).translations)
    /\ \A r \in Reqs :
          Completed(r, "translate") =>
              Len(load_session(store, req[r].sid).translations) =
                  Len(Loaded(req[r].pre_store).translations) + 1

\* After a translate answered 200 the context holds fewer entries than the
\* file, and not none.
C19_Witness ==
    \E r \in Reqs :
        LET s == req[r].sid IN
        /\ Completed(r, "translate")
        /\ sessions[s].messages # <<>>
        /\ Len(sessions[s].messages) + 2
               <= Len(load_session(store, s).translations)
        /\ store[s].systemPrompt # Loaded(store0[s]).systemPrompt

\* The context a request found, or the fresh one it created.
ContextBefore(r) ==
    IF req[r].pre_ctx = NoCtx THEN NewContext(env) ELSE req[r].pre_ctx

\* C20: when a system-prompt update has been handled, the context differs
\* from the one the request found (or created) in system_prompt only, and
\* the file, if written, is the loaded record with systemPrompt replaced;
\* when a reference update has been handled, the same with references.
\* History and translations are as before, whatever the limits.
C20_UpdateTouchesOwnField ==
    \A r \in Reqs :
        LET s == req[r].sid IN
        /\ (Done(r) /\ req[r].kind = "system_prompt") =>
              /\ sessions[s] =
                     [ContextBefore(r) EXCEPT !.system_prompt = req[r].text]
              /\ store[s] =
                     IF req[r].resp = "200"
                     THEN [Loaded(req[r].pre_store) EXCEPT
                              !.systemPrompt = req[r].text]
                     ELSE req[r].pre_store
        /\ (Done(r) /\ req[r].kind = "references") =>
              /\ sessions[s] =
                     [ContextBefore(r) EXCEPT
                         !.references = req[r].references]
              /\ store[s] =
                     IF req[r].resp = "200"
                     THEN [Loaded(req[r].pre_store) EXCEPT
                              !.references = req[r].references]
                     ELSE req[r].pre_store

\* A system-prompt update has left a history in place that exceeds the
\* token limit under the new prompt, in a session with stored translations.
C20_Witness ==
    \E r \in Reqs :
        LET s == req[r].sid IN
        /\ Completed(r, "system_prompt")
        /\ req[r].pre_ctx # NoCtx
        /\ req[r].pre_ctx.system_prompt # req[r].text
        /\ sessions[s].messages # <<>>
        /\ ~WithinLimits(sessions[s])
        /\ store[s].translations # <<>>

====
